---- MODULE Spec2Model ----
(***************************************************************************)
(* Model of the chat orchestration layer (app/services/chat_service.py,   *)
(* app/api/chat.py), of the document chunker and ingestion pipeline        *)
(* (app/services/document_service.py, app/api/documents.py), of the       *)
(* vector index (app/services/vector_service.py), of the similarity      *)
(* function (app/services/embedding_service.py) and of the rate limiter   *)
(* (app/core/security.py).                                                *)
(*                                                                         *)
(* Text is a sequence of one-character strings.  An Optional value is the *)
(* empty tuple (None) or a one-element tuple holding the value.            *)
(* Relevance and confidence are fixed-point numbers in units of 1/One.     *)
(***************************************************************************)
EXTENDS Integers, Sequences, FiniteSets, TLC

VARIABLES users, conversations, messages, memory, now, uuids,
          pc, req, conv, user_msg, ai_msg, chain_out, result, titled, calls,
          text, chunk_size, chunk_overlap, start, chunks, spans, cpc,
          documents, document_chunks, collection, vids, response,
          embedding1, embedding2, similarity, spc,
          tpc, treq, tconv, handed,
          rate_limits, clock, log

chatvars == <<users, conversations, messages, memory, now, uuids,
              pc, req, conv, user_msg, ai_msg, chain_out, result, titled, calls>>
chunkvars == <<text, chunk_size, chunk_overlap, start, chunks, spans, cpc>>
docvars == <<documents, document_chunks, collection, vids>>
simvars == <<embedding1, embedding2, similarity, spc>>
workervars == <<tpc, treq, tconv, handed>>
ratevars == <<rate_limits, clock, log>>
extvars == <<documents, document_chunks, collection, vids, response,
             embedding1, embedding2, similarity, spc,
             tpc, treq, tconv, handed,
             rate_limits, clock, log>>
vars == <<users, conversations, messages, memory, now, uuids,
          pc, req, conv, user_msg, ai_msg, chain_out, result, titled, calls,
          text, chunk_size, chunk_overlap, start, chunks, spans, cpc,
          documents, document_chunks, collection, vids, response,
          embedding1, embedding2, similarity, spc,
          tpc, treq, tconv, handed,
          rate_limits, clock, log>>

----------------------------------------------------------------------------
(* Bounds of the model *)

MaxCalls == 2
MaxScoreCalls == 2
MaxHits == 2
MaxHistory == 11
MaxTextLen == 5
MaxChunkSize == 3

----------------------------------------------------------------------------
(* Values *)

None == <<>>
Some(v) == <<v>>

Rep(c, n) == [i \in 1..n |-> c]

Take(s, n) == IF Len(s) <= n THEN s ELSE SubSeq(s, 1, n)

Min(a, b) == IF a <= b THEN a ELSE b

RECURSIVE Strip(_)
Strip(s) ==
    IF s = <<>> THEN s
    ELSE IF Head(s) = " " THEN Strip(Tail(s))
    ELSE IF s[Len(s)] = " " THEN Strip(SubSeq(s, 1, Len(s) - 1))
    ELSE s

NewChat == <<"N", "e", "w", " ", "C", "h", "a", "t">>
Ellipsis == <<".", ".", ".">>

TitleThreshold == 10
TitleLen == 50
TitleColumnLen == 255
HistoryLimit == 10
TopK == 4
ExcerptLen == 200
One == 24

----------------------------------------------------------------------------
(* Inputs *)

Emails == {<<"a", "@", "x">>, <<"b", "@", "x">>}
ClientSessionIds == {<<"client", 1>>}
UserMessages == {Rep("q", 10), Rep("s", 51)}
NewTitles == {<<" ">>, <<" ", "N", "e", "w", " ", "C", "h", "a", "t">>}
Answers == {<<"o", "k">>}
Distances == {-12, 36}
ChunkTexts == {<<"p">>}
Ticks == {1}
ChainErrors == {"EmbeddingError", "LLMError"}
FailPoints == {"none", "user", "conversation", "load", "save_user"}
LateFailPoints == {"none", "save_ai", "title"}

Uuid(n) == <<"uuid", n>>
MintedSessionIds == {Uuid(n) : n \in 1..uuids}
KnownSessionIds == ClientSessionIds \cup MintedSessionIds
SessionIdInputs == {None} \cup {Some(s) : s \in ClientSessionIds \cup MintedSessionIds}

----------------------------------------------------------------------------
(* Queries on the relational store *)

RECURSIVE LocalPart(_)
LocalPart(email) ==
    IF email = <<>> \/ Head(email) = "@" THEN <<>>
    ELSE <<Head(email)>> \o LocalPart(Tail(email))

MinOf(S) == CHOOSE x \in S : \A y \in S : x <= y

UserByEmail(email) ==
    LET hits == {u \in 1..Len(users) : users[u].email = email}
    IN IF hits = {} THEN 0 ELSE MinOf(hits)

ActiveConversation(sid, uid) ==
    LET hits == {c \in 1..Len(conversations) :
                    /\ conversations[c].session_id = sid
                    /\ conversations[c].user_id = uid
                    /\ conversations[c].is_active}
    IN IF hits = {} THEN 0 ELSE MinOf(hits)

AnyConversation(sid, uid) ==
    LET hits == {c \in 1..Len(conversations) :
                    /\ conversations[c].session_id = sid
                    /\ conversations[c].user_id = uid}
    IN IF hits = {} THEN 0 ELSE MinOf(hits)

SessionIdTaken(sid) ==
    \E c \in 1..Len(conversations) : conversations[c].session_id = sid

ConversationMessages(c) ==
    {i \in 1..Len(messages) : messages[i].conversation_id = c}

RECURSIVE Perms(_)
Perms(S) ==
    IF S = {} THEN {<<>>}
    ELSE UNION {{<<x>> \o p : p \in Perms(S \ {x})} : x \in S}

RECURSIVE OrderByTimestamp(_)
OrderByTimestamp(S) ==
    IF S = {} THEN {<<>>}
    ELSE LET t == MinOf({messages[i].timestamp : i \in S})
             G == {i \in S : messages[i].timestamp = t}
         IN {p \o q : p \in Perms(G), q \in OrderByTimestamp(S \ G)}

----------------------------------------------------------------------------
(* Retrieval and the pure steps of generate_response *)

Metadata == [title |-> <<"d">>, department |-> <<"h">>, content_type |-> <<"t">>,
             document_id |-> 1, chunk_index |-> 0]

Hits == [content : ChunkTexts, distance : Distances, metadata : {Metadata}]

\* what the index can answer when it holds count entries: the n_results
\* nearest, by ascending distance
SearchResults(count) ==
    UNION {{h \in [1..n -> Hits] :
               \A i \in 1..n, j \in 1..n : i < j => h[i].distance <= h[j].distance} :
           n \in 0..Min(TopK, count)}

\* metadata.get(key, default) and metadata.get(key)
Get(metadata, key, default) ==
    IF key \in DOMAIN metadata THEN metadata[key] ELSE default

GetOpt(metadata, key) ==
    IF key \in DOMAIN metadata THEN Some(metadata[key]) ELSE None

UnknownDocument == <<"Unknown Document">>

\* the LangChain document made of the hit at position i (from 0)
LangChainDocument(hit, i) ==
    [page_content |-> hit.content,
     metadata |-> [source |-> Get(hit.metadata, "title", UnknownDocument),
                   department |-> Get(hit.metadata, "department", <<>>),
                   content_type |-> Get(hit.metadata, "content_type", <<>>),
                   document_id |-> GetOpt(hit.metadata, "document_id"),
                   chunk_index |-> Get(hit.metadata, "chunk_index", i),
                   raw_distance |-> hit.distance,
                   relevance_score |-> One - hit.distance]]

\* the documents in the reverse of the index's order
RelevantDocumentsReversed(hits) ==
    [i \in 1..Len(hits) |-> LangChainDocument(hits[Len(hits) + 1 - i], i - 1)]

RelevantDocuments(hits) ==
    [i \in 1..Len(hits) |-> LangChainDocument(hits[i], i - 1)]

\* the first characters without the marker
ExcerptUnmarked(content) ==
    IF Len(content) > ExcerptLen THEN SubSeq(content, 1, ExcerptLen)
    ELSE content

Excerpt(content) ==
    IF Len(content) > ExcerptLen THEN SubSeq(content, 1, ExcerptLen) \o Ellipsis
    ELSE content

SourceDocInfo(docs) ==
    [i \in 1..Len(docs) |->
        [source |-> docs[i].metadata.source,
         department |-> docs[i].metadata.department,
         content_type |-> docs[i].metadata.content_type,
         document_id |-> docs[i].metadata.document_id,
         relevance_score |-> docs[i].metadata.relevance_score,
         chunk_content |-> Excerpt(docs[i].page_content)]]

RECURSIVE SumRelevance(_)
SumRelevance(info) ==
    IF info = <<>> THEN 0
    ELSE Head(info).relevance_score + SumRelevance(Tail(info))

\* the mean without the cap at 1.0
ConfidenceScoreUnclamped(info) ==
    IF info = <<>> THEN None
    ELSE Some(SumRelevance(info) \div Len(info))

ConfidenceScore(info) ==
    IF info = <<>> THEN None
    ELSE Some(Min(SumRelevance(info) \div Len(info), One))

TitleOf(user_message) ==
    Take(user_message, TitleLen)
        \o (IF Len(user_message) > TitleLen THEN Ellipsis ELSE <<>>)

Apology == "I apologize, but I encountered an error while processing your request: "

\* the failure result with a confidence of zero instead of none
ErrorResultZeroConfidence(session_id, e) ==
    [response |-> <<Apology, e>>,
     session_id |-> session_id,
     message_id |-> None,
     sources |-> <<>>,
     confidence_score |-> Some(0),
     error |-> e]

ErrorResult(session_id, e) ==
    [response |-> <<Apology, e>>,
     session_id |-> session_id,
     message_id |-> None,
     sources |-> <<>>,
     confidence_score |-> None,
     error |-> e]

NewMessage(c, content, is_user, sources, confidence, ts) ==
    [conversation_id |-> c, content |-> content, is_user_message |-> is_user,
     source_documents |-> sources, confidence_score |-> confidence,
     timestamp |-> ts, user_feedback |-> None]

NoRequest == [user_email |-> <<>>, user_message |-> <<>>, session_id |-> None]
NoChainOut == [answer |-> <<>>, source_documents |-> <<>>]

----------------------------------------------------------------------------
(* ChatService.get_or_create_conversation, save_message and               *)
(* load_conversation_history as functions of the tables.  fail_at names   *)
(* the step at which the store fails ("none": it does not).               *)

NewSessionId(sid) == IF sid # None THEN sid[1] ELSE Uuid(uuids + 1)

Resolved(us, cs, n, c, e) ==
    [users |-> us, conversations |-> cs, uuids |-> n, conversation |-> c, error |-> e]

\* get_or_create_conversation without the lookup: every call inserts
GetOrCreateConversationNoLookup(user_email, session_id, fail_at) ==
    LET user0 == UserByEmail(user_email)
        users1 == IF user0 # 0 THEN users
                  ELSE Append(users, [email |-> user_email,
                                      name |-> LocalPart(user_email),
                                      role |-> "employee"])
        user == IF user0 # 0 THEN user0 ELSE Len(users) + 1
        uuids1 == IF session_id # None THEN uuids ELSE uuids + 1
    IN IF fail_at = "user"
       THEN Resolved(users, conversations, uuids, 0, Some("OperationalError"))
       ELSE IF fail_at = "conversation"
       THEN Resolved(users1, conversations, uuids, 0, Some("OperationalError"))
       ELSE IF SessionIdTaken(NewSessionId(session_id))
       THEN Resolved(users1, conversations, uuids1, 0, Some("IntegrityError"))
       ELSE Resolved(users1,
                     Append(conversations,
                            [user_id |-> user,
                             session_id |-> NewSessionId(session_id),
                             title |-> NewChat,
                             is_active |-> TRUE,
                             last_message_at |-> None]),
                     uuids1, Len(conversations) + 1, None)

\* get_or_create_conversation with a lookup by session_id alone
GetOrCreateConversationAnyOwner(user_email, session_id, fail_at) ==
    LET user0 == UserByEmail(user_email)
        users1 == IF user0 # 0 THEN users
                  ELSE Append(users, [email |-> user_email,
                                      name |-> LocalPart(user_email),
                                      role |-> "employee"])
        user == IF user0 # 0 THEN user0 ELSE Len(users) + 1
        hits == {c \in 1..Len(conversations) :
                    /\ session_id # None
                    /\ conversations[c].session_id = session_id[1]
                    /\ conversations[c].is_active}
        found == IF hits = {} THEN 0 ELSE MinOf(hits)
        uuids1 == IF session_id # None THEN uuids ELSE uuids + 1
    IN IF fail_at = "user"
       THEN Resolved(users, conversations, uuids, 0, Some("OperationalError"))
       ELSE IF fail_at = "conversation"
       THEN Resolved(users1, conversations, uuids, 0, Some("OperationalError"))
       ELSE IF found # 0
       THEN Resolved(users1, conversations, uuids, found, None)
       ELSE IF SessionIdTaken(NewSessionId(session_id))
       THEN Resolved(users1, conversations, uuids1, 0, Some("IntegrityError"))
       ELSE Resolved(users1,
                     Append(conversations,
                            [user_id |-> user,
                             session_id |-> NewSessionId(session_id),
                             title |-> NewChat,
                             is_active |-> TRUE,
                             last_message_at |-> None]),
                     uuids1, Len(conversations) + 1, None)

GetOrCreateConversation(user_email, session_id, fail_at) ==
    LET user0 == UserByEmail(user_email)
        users1 == IF user0 # 0 THEN users
                  ELSE Append(users, [email |-> user_email,
                                      name |-> LocalPart(user_email),
                                      role |-> "employee"])
        user == IF user0 # 0 THEN user0 ELSE Len(users) + 1
        found == IF session_id # None
                 THEN ActiveConversation(session_id[1], user)
                 ELSE 0
        uuids1 == IF session_id # None THEN uuids ELSE uuids + 1
    IN IF fail_at = "user"
       THEN Resolved(users, conversations, uuids, 0, Some("OperationalError"))
       ELSE IF fail_at = "conversation"
       THEN Resolved(users1, conversations, uuids, 0, Some("OperationalError"))
       ELSE IF found # 0
       THEN Resolved(users1, conversations, uuids, found, None)
       ELSE IF SessionIdTaken(NewSessionId(session_id))
       THEN Resolved(users1, conversations, uuids1, 0, Some("IntegrityError"))
       ELSE Resolved(users1,
                     Append(conversations,
                            [user_id |-> user,
                             session_id |-> NewSessionId(session_id),
                             title |-> NewChat,
                             is_active |-> TRUE,
                             last_message_at |-> None]),
                     uuids1, Len(conversations) + 1, None)

MemoryEntry(m) == [is_user |-> m.is_user_message, content |-> m.content]

LoadedHistory(order) ==
    [i \in 1..Min(HistoryLimit, Len(order)) |-> MemoryEntry(messages[order[i]])]

\* save_message that stamps the conversation but never adds the message
SaveMessageNotAdded(cs, c, content, is_user, sources, confidence, ts) ==
    [messages |-> messages,
     conversations |-> [cs EXCEPT ![c].last_message_at = Some(ts)]]

SaveMessage(cs, c, content, is_user, sources, confidence, ts) ==
    [messages |-> Append(messages,
                         NewMessage(c, content, is_user, sources, confidence, ts)),
     conversations |-> [cs EXCEPT ![c].last_message_at = Some(ts)]]

----------------------------------------------------------------------------
(* ChatService.generate_response: the steps up to the chain call, the     *)
(* chain call, and the steps after it.                                     *)

\* no except branch: the exception leaves generate_response
RaiseUncaught(session_id, e) ==
    /\ result' = None
    /\ pc' = "raised"

\* the except branch: the exception becomes the returned result
Raise(session_id, e) ==
    /\ result' = Some(ErrorResult(session_id, e))
    /\ pc' = "done"

GenerateResponse(user_email, user_message, session_id, fail_at, tick) ==
    /\ pc = "idle"
    /\ req' = [user_email |-> user_email, user_message |-> user_message,
               session_id |-> session_id]
    /\ LET r == GetOrCreateConversation(user_email, session_id, fail_at)
           saved == SaveMessage(r.conversations, r.conversation, user_message,
                                TRUE, None, None, now + tick)
       IN /\ users' = r.users
          /\ uuids' = r.uuids
          /\ conv' = r.conversation
          /\ IF r.error # None
             THEN /\ Raise(session_id, r.error[1])
                  /\ conversations' = r.conversations
                  /\ UNCHANGED <<messages, memory, now, user_msg>>
             ELSE IF fail_at = "load"
             THEN /\ Raise(session_id, "OperationalError")
                  /\ conversations' = r.conversations
                  /\ memory' = <<>>
                  /\ UNCHANGED <<messages, now, user_msg>>
             ELSE /\ \E order \in OrderByTimestamp(ConversationMessages(r.conversation)) :
                        memory' = LoadedHistory(order)
                  /\ IF fail_at = "save_user"
                     THEN /\ Raise(session_id, "OperationalError")
                          /\ conversations' = r.conversations
                          /\ UNCHANGED <<messages, now, user_msg>>
                     ELSE /\ messages' = saved.messages
                          /\ conversations' = saved.conversations
                          /\ now' = now + tick
                          /\ user_msg' = Len(messages) + 1
                          /\ pc' = "chain"
                          /\ UNCHANGED result
    /\ calls' = calls + 1
    /\ UNCHANGED <<ai_msg, chain_out, titled>>
    /\ UNCHANGED chunkvars
    /\ UNCHANGED extvars

ChainSuccesses(count) == [answer : Answers, hits : SearchResults(count)]

\* self.chain({"question": ...}): retrieval, the model call, then the
\* memory's save_context
RunChain(failed, e, out) ==
    /\ pc = "chain"
    /\ IF failed
       THEN /\ Raise(req.session_id, e)
            /\ UNCHANGED <<memory, chain_out>>
       ELSE /\ chain_out' = [answer |-> out.answer,
                             source_documents |-> RelevantDocuments(out.hits)]
            /\ memory' = memory \o <<[is_user |-> TRUE, content |-> req.user_message],
                                     [is_user |-> FALSE, content |-> out.answer]>>
            /\ pc' = "answer"
            /\ UNCHANGED result
    /\ UNCHANGED <<users, conversations, messages, now, uuids, req, conv,
                   user_msg, ai_msg, titled, calls>>
    /\ UNCHANGED chunkvars
    /\ UNCHANGED extvars

NeedsTitle(title, user_message) ==
    title = NewChat /\ Len(user_message) > TitleThreshold

\* the result naming the message stored before the assistant's
SuccessResultPreviousId(answer, session_id, message_id, sources, confidence, title) ==
    [response |-> answer,
     session_id |-> Some(session_id),
     message_id |-> Some(message_id - 1),
     sources |-> sources,
     confidence_score |-> confidence,
     conversation_title |-> title]

SuccessResult(answer, session_id, message_id, sources, confidence, title) ==
    [response |-> answer,
     session_id |-> Some(session_id),
     message_id |-> Some(message_id),
     sources |-> sources,
     confidence_score |-> confidence,
     conversation_title |-> title]

\* from the source attributions to the return
FinishResponse(fail_at, tick) ==
    /\ pc = "answer"
    /\ LET source_doc_info == SourceDocInfo(chain_out.source_documents)
           confidence_score == ConfidenceScore(source_doc_info)
           saved == SaveMessage(conversations, conv, chain_out.answer, FALSE,
                                Some(source_doc_info), confidence_score, now + tick)
           retitle == NeedsTitle(conversations[conv].title, req.user_message)
           title == IF retitle THEN TitleOf(req.user_message)
                    ELSE conversations[conv].title
       IN IF fail_at = "save_ai"
          THEN /\ Raise(req.session_id, "OperationalError")
               /\ UNCHANGED <<messages, conversations, now, ai_msg, titled>>
          ELSE /\ messages' = saved.messages
               /\ now' = now + tick
               /\ ai_msg' = Len(messages) + 1
               /\ IF retitle /\ fail_at = "title"
                  THEN /\ Raise(req.session_id, "OperationalError")
                       /\ conversations' = saved.conversations
                       /\ UNCHANGED titled
                  ELSE /\ conversations' = [saved.conversations EXCEPT ![conv].title = title]
                       /\ titled' = IF retitle THEN titled \cup {conv} ELSE titled
                       /\ result' = Some(SuccessResult(chain_out.answer,
                                                       conversations[conv].session_id,
                                                       Len(messages) + 1,
                                                       source_doc_info,
                                                       confidence_score, title))
                       /\ pc' = "done"
    /\ UNCHANGED <<users, memory, uuids, req, conv, user_msg, chain_out, calls>>
    /\ UNCHANGED chunkvars
    /\ UNCHANGED extvars

\* the caller takes the result; the request's locals go away
Return ==
    /\ pc = "done"
    /\ pc' = "idle"
    /\ req' = NoRequest
    /\ conv' = 0
    /\ user_msg' = 0
    /\ ai_msg' = 0
    /\ chain_out' = NoChainOut
    /\ result' = None
    /\ UNCHANGED <<users, conversations, messages, memory, now, uuids, titled, calls>>
    /\ UNCHANGED chunkvars
    /\ UNCHANGED extvars

----------------------------------------------------------------------------
(* Handlers of app/api/chat.py that write conversations.  A request that  *)
(* ends in 400, 404 or 500 (ok = FALSE: the commit fails and is rolled     *)
(* back) leaves the store as it was.                                       *)

DeleteConversation(session_id, user_email, ok) ==
    /\ pc = "idle"
    /\ LET user == UserByEmail(user_email)
           conversation == AnyConversation(session_id, user)
       IN IF user = 0 \/ conversation = 0 \/ ~ok
          THEN UNCHANGED conversations
          ELSE conversations' = [conversations EXCEPT
                                    ![conversation].is_active = FALSE]
    /\ UNCHANGED <<users, messages, memory, now, uuids,
                   pc, req, conv, user_msg, ai_msg, chain_out, result, titled, calls>>
    /\ UNCHANGED chunkvars
    /\ UNCHANGED extvars

UpdateConversationTitle(session_id, new_title, user_email, ok) ==
    /\ pc = "idle"
    /\ LET user == UserByEmail(user_email)
           conversation == ActiveConversation(session_id, user)
       IN IF Len(Strip(new_title)) = 0 \/ user = 0 \/ conversation = 0 \/ ~ok
          THEN UNCHANGED conversations
          ELSE conversations' = [conversations EXCEPT
                                    ![conversation].title =
                                        Take(Strip(new_title), TitleColumnLen)]
    /\ UNCHANGED <<users, messages, memory, now, uuids,
                   pc, req, conv, user_msg, ai_msg, chain_out, result, titled, calls>>
    /\ UNCHANGED chunkvars
    /\ UNCHANGED extvars

----------------------------------------------------------------------------
(* The chat specification *)

ChatInit ==
    /\ users = <<>>
    /\ conversations = <<>>
    /\ messages = <<>>
    /\ memory = <<>>
    /\ now = 0
    /\ uuids = 0
    /\ pc = "idle"
    /\ req = NoRequest
    /\ conv = 0
    /\ user_msg = 0
    /\ ai_msg = 0
    /\ chain_out = NoChainOut
    /\ result = None
    /\ titled = {}
    /\ calls = 0

ChunkIdle ==
    /\ text = <<>>
    /\ chunk_size = 1
    /\ chunk_overlap = 0
    /\ start = 0
    /\ chunks = <<>>
    /\ spans = <<>>
    /\ cpc = "off"

Workers == {1, 2}

NoResponse == [op |-> "none", status |-> 0]

DocIdle ==
    /\ documents = <<>>
    /\ document_chunks = <<>>
    /\ collection = <<>>
    /\ vids = 0
    /\ response = NoResponse

SimIdle ==
    /\ embedding1 = <<>>
    /\ embedding2 = <<>>
    /\ similarity = None
    /\ spc = "off"

WorkersIdle ==
    /\ tpc = [w \in Workers |-> "off"]
    /\ treq = [w \in Workers |-> NoRequest]
    /\ tconv = [w \in Workers |-> 0]
    /\ handed = [w \in Workers |-> <<>>]

\* identifiers as rate_limit forms them, and method:path
Identifiers == {<<"user:", 1>>, <<"ip:", 1>>}
Endpoints == {<<"POST", ":", "/api/chat/message">>}

\* f"{identifier}:{endpoint}"
RateKey(identifier, endpoint) == identifier \o <<":">> \o endpoint

RateKeys == {RateKey(i, e) : i \in Identifiers, e \in Endpoints}

RateIdle ==
    /\ rate_limits = [k \in RateKeys |-> <<>>]
    /\ clock = 0
    /\ log = <<>>

Init == ChatInit /\ ChunkIdle /\ DocIdle /\ SimIdle /\ WorkersIdle /\ RateIdle

\* conversations of two users over an empty index, with every failure
Next ==
    \/ \E email \in Emails, msg \in UserMessages, sid \in SessionIdInputs,
          fail_at \in FailPoints, tick \in Ticks :
          /\ calls < MaxCalls
          /\ GenerateResponse(email, msg, sid, fail_at, tick)
    \/ \E e \in ChainErrors : RunChain(TRUE, e, [answer |-> <<>>, hits |-> <<>>])
    \/ \E out \in ChainSuccesses(0) : RunChain(FALSE, "", out)
    \/ \E fail_at \in LateFailPoints, tick \in Ticks : FinishResponse(fail_at, tick)
    \/ Return
    \/ \E sid \in KnownSessionIds, email \in Emails :
          DeleteConversation(sid, email, TRUE)
    \/ \E sid \in KnownSessionIds, title \in NewTitles, email \in Emails :
          UpdateConversationTitle(sid, title, email, TRUE)

Spec == Init /\ [][Next]_vars

\* one user's fresh conversations over an index of MaxHits entries
ScoreEmails == {<<"a", "@", "x">>}
ScoreMessages == {Rep("q", 10), Rep("r", 11)}

ScoreNext ==
    \/ \E email \in ScoreEmails, msg \in ScoreMessages, tick \in Ticks :
          /\ calls < MaxScoreCalls
          /\ GenerateResponse(email, msg, None, "none", tick)
    \/ RunChain(TRUE, "LLMError", [answer |-> <<>>, hits |-> <<>>])
    \/ \E out \in ChainSuccesses(MaxHits) : RunChain(FALSE, "", out)
    \/ \E tick \in Ticks : FinishResponse("none", tick)
    \/ Return

ScoreSpec == Init /\ [][ScoreNext]_vars

\* one long conversation
HistoryMessages == {Rep("q", 10)}

HistoryNext ==
    \/ \E email \in ScoreEmails, msg \in HistoryMessages, tick \in Ticks :
          /\ Len(messages) <= MaxHistory
          /\ GenerateResponse(email, msg, Some(<<"client", 1>>), "none", tick)
    \/ RunChain(TRUE, "LLMError", [answer |-> <<>>, hits |-> <<>>])
    \/ \E out \in ChainSuccesses(0) : RunChain(FALSE, "", out)
    \/ \E tick \in Ticks : FinishResponse("none", tick)
    \/ Return

HistorySpec == Init /\ [][HistoryNext]_vars

----------------------------------------------------------------------------
(* DocumentService.chunk_text, one action per iteration of its loop.      *)
(* Positions are Python's: the character at position i is text[i + 1].    *)

MaxOf(S) == CHOOSE x \in S : \A y \in S : y <= x

\* text.rfind(c, lo, hi)
RFind(t, c, lo, hi) ==
    LET found == {i \in lo..(Min(hi, Len(t)) - 1) : t[i + 1] = c}
    IN IF found = {} THEN -1 ELSE MaxOf(found)

\* text[lo:hi]
Slice(t, lo, hi) == SubSeq(t, lo + 1, Min(hi, Len(t)))

ChunkEnd(t, from, size) ==
    LET end == from + size
        last_space == RFind(t, " ", from, end)
    IN IF end < Len(t) /\ last_space > from THEN last_space ELSE end

\* the next window begins one character after the end of this one
NextStartSkipping(end, overlap) ==
    end + 1

NextStart(end, overlap) ==
    IF end - overlap <= 0 THEN end ELSE end - overlap

ChunkIteration ==
    /\ cpc = "loop"
    /\ start < Len(text)
    /\ LET end == ChunkEnd(text, start, chunk_size)
           chunk == Strip(Slice(text, start, end))
       IN /\ chunks' = IF chunk # <<>> THEN Append(chunks, chunk) ELSE chunks
          /\ spans' = Append(spans, <<start, end>>)
          /\ start' = NextStart(end, chunk_overlap)
    /\ UNCHANGED <<text, chunk_size, chunk_overlap, cpc>>
    /\ UNCHANGED chatvars
    /\ UNCHANGED extvars

ChunkReturn ==
    /\ cpc = "loop"
    /\ start >= Len(text)
    /\ cpc' = "done"
    /\ UNCHANGED <<text, chunk_size, chunk_overlap, start, chunks, spans>>
    /\ UNCHANGED chatvars
    /\ UNCHANGED extvars

Alphabet == {"a", " "}
Texts == UNION {[1..n -> Alphabet] : n \in 0..MaxTextLen}

ChunkInit ==
    /\ text \in Texts
    /\ chunk_size \in 1..MaxChunkSize
    /\ chunk_overlap \in 0..(chunk_size - 1)
    /\ start = 0
    /\ chunks = <<>>
    /\ spans = <<>>
    /\ cpc = "loop"

\* a run that has not returned after this many iterations is cut off
MaxIterations == 2 * MaxTextLen + 2

ChunkNext ==
    \/ Len(spans) < MaxIterations /\ ChunkIteration
    \/ ChunkReturn

ChunkSpecInit == ChatInit /\ ChunkInit /\ DocIdle /\ SimIdle /\ WorkersIdle /\ RateIdle

ChunkSpec == ChunkSpecInit /\ [][ChunkNext]_vars

----------------------------------------------------------------------------
(* Properties of generate_response *)

Returned == pc = "done"
Failed == Returned /\ "error" \in DOMAIN result[1]
Succeeded == Returned /\ "error" \notin DOMAIN result[1]

\* the call got as far as the chain and the chain raised
ChainFailed == Returned /\ user_msg # 0 /\ chain_out = NoChainOut

\* C1: whatever step fails, generate_response ends by returning a result
\* dictionary with a response text; no exception leaves it.
C1_AlwaysReturnsResult ==
    /\ pc \in {"idle", "chain", "answer", "done"}
    /\ Returned => /\ result # None
                   /\ "response" \in DOMAIN result[1]

C1_Witness ==
    /\ Failed
    /\ result[1].error = "IntegrityError"

\* C2: the user message is committed to the resolved conversation before the
\* chain starts, and it is still there when the chain has failed.
C2_UserMessagePersisted ==
    (pc \in {"chain", "answer"} \/ ChainFailed) =>
        /\ user_msg \in 1..Len(messages)
        /\ messages[user_msg].conversation_id = conv
        /\ messages[user_msg].content = req.user_message
        /\ messages[user_msg].is_user_message

C2_Witness ==
    /\ ChainFailed
    /\ messages[user_msg].content = req.user_message

\* C3: when the chain raises, the result carries the error, no sources and no
\* confidence, and the call's user message is the last message persisted.
C3_ChainFailureResult ==
    ChainFailed =>
        /\ "error" \in DOMAIN result[1]
        /\ result[1].error \in ChainErrors
        /\ result[1].sources = <<>>
        /\ result[1].confidence_score = None
        /\ ai_msg = 0
        /\ Len(messages) = user_msg

C3_Witness ==
    /\ ChainFailed
    /\ result[1].error = "EmbeddingError"

ResultKeys == {"response", "session_id", "message_id", "sources",
               "confidence_score", "conversation_title"}

\* C4: every returned result has the six fields of the contract, and its
\* session_id is that of the conversation the call resolved or created.
C4_ResultShape ==
    Returned =>
        /\ ResultKeys \subseteq DOMAIN result[1]
        /\ conv # 0 => result[1].session_id = Some(conversations[conv].session_id)

\* the first step of a call, and the conversation its session_id names
Entering == pc = "idle" /\ pc' # "idle"

Matching(email, sid) ==
    {c \in 1..Len(conversations) :
        /\ sid # None
        /\ conversations[c].session_id = sid[1]
        /\ conversations[c].is_active
        /\ UserByEmail(email) # 0
        /\ conversations[c].user_id = UserByEmail(email)}

\* C5: a call with the session_id of an active conversation of the same user
\* creates no conversation, resolves to that one unless the store fails,
\* appends its message to it and returns the same session_id.
C5_SameSessionSameConversation ==
    [][/\ \A c \in Matching(req'.user_email, req'.session_id) :
              Entering =>
                 /\ Len(conversations') = Len(conversations)
                 /\ conv' \in {0, c}
                 /\ conv' = 0 => result'[1].error = "OperationalError"
                 /\ pc' = "chain" =>
                       /\ Len(messages') = Len(messages) + 1
                       /\ messages'[user_msg'].conversation_id = c
       /\ (pc' = "done" /\ req'.session_id # None) =>
              result'[1].session_id = req'.session_id]_vars

C5_Witness ==
    /\ Succeeded
    /\ req.session_id = Some(conversations[conv].session_id)
    /\ \E i \in ConversationMessages(conv) : i < user_msg

\* C6: a call whose session_id matches no active conversation of the user
\* creates a conversation under a session identifier no conversation has yet
\* and goes on to the chain, unless the store fails.
C6_UnmatchedSessionStartsFresh ==
    [][(/\ Entering
        /\ req'.session_id # None
        /\ Matching(req'.user_email, req'.session_id) = {}) =>
           \/ /\ pc' = "chain"
              /\ Len(conversations') = Len(conversations) + 1
              /\ conv' = Len(conversations')
              /\ ~SessionIdTaken(conversations'[conv'].session_id)
           \/ /\ pc' = "done"
              /\ result'[1].error = "OperationalError"]_vars

RECURSIVE Ascending(_)
Ascending(S) ==
    IF S = {} THEN <<>>
    ELSE <<MinOf(S)>> \o Ascending(S \ {MinOf(S)})

\* the conversation's messages from before the call, oldest first
Earlier == Ascending({i \in ConversationMessages(conv) : i < user_msg})

\* C7: the memory handed to the chain holds the min(10, m) most recent of the
\* conversation's m earlier messages, oldest first.
C7_LoadsMostRecent ==
    pc = "chain" =>
        LET m == Len(Earlier)
            k == Min(HistoryLimit, m)
        IN memory = [i \in 1..k |-> MemoryEntry(messages[Earlier[m - k + i]])]

RECURSIVE Total(_, _)
Total(sources, n) ==
    IF n = 0 THEN 0 ELSE sources[n].relevance_score + Total(sources, n - 1)

\* C8: a successful call reports no confidence exactly when it has no
\* sources; otherwise the confidence times the number of sources is the sum
\* of their relevance scores, or the confidence is 1.0 when the mean exceeds
\* it.  The assistant message stores the same value.
C8_ConfidenceIsClampedMean ==
    Succeeded =>
        LET sources == result[1].sources
            n == Len(sources)
            confidence == result[1].confidence_score
        IN /\ confidence = None <=> sources = <<>>
           /\ sources # <<>> =>
                 IF Total(sources, n) > n * One
                 THEN confidence = Some(One)
                 ELSE confidence[1] * n = Total(sources, n)
           /\ messages[ai_msg].confidence_score = confidence

C8_Witness ==
    /\ Succeeded
    /\ Len(result[1].sources) = 2
    /\ result[1].sources[1].relevance_score > One
    /\ result[1].confidence_score = Some(12)

\* C9: once generate_response has set a conversation's title, no later call
\* changes that title.
C9_TitleAssignedOnce ==
    [][\A c \in titled :
          (pc = "answer" /\ conv = c) =>
              conversations'[c].title = conversations[c].title]_vars

\* C10: every iteration of the loop of chunk_text moves start strictly
\* forward.
C10_StartMovesForward ==
    [][(cpc = "loop" /\ start < Len(text)) => start' > start]_vars

----------------------------------------------------------------------------
(* Properties of chunk_text when it returns *)

\* C11: when chunk_text has returned, the spans it cut begin at 0, reach the
\* end of the text, each begins at or before the end of the one before it,
\* and no chunk is longer than chunk_size.
C11_SpansCoverText ==
    cpc = "done" =>
        /\ Len(text) > 0 =>
               /\ spans # <<>>
               /\ spans[1][1] = 0
               /\ spans[Len(spans)][2] >= Len(text)
        /\ \A i \in 2..Len(spans) :
               /\ spans[i][1] <= spans[i - 1][2]
               /\ spans[i][1] >= 0
        /\ \A i \in 1..Len(spans) : spans[i][1] < spans[i][2]
        /\ \A i \in 1..Len(chunks) : Len(chunks[i]) <= chunk_size

C11_Witness ==
    /\ cpc = "done"
    /\ chunk_overlap > 0
    /\ Len(spans) >= 3
    /\ \E i \in 1..Len(spans) : spans[i][2] < spans[i][1] + chunk_size
    /\ \E i \in 1..Len(chunks) : Len(chunks[i]) = chunk_size

----------------------------------------------------------------------------
(* The documents API (app/api/documents.py), DocumentService.process_document *)
(* and the vector index (app/services/vector_service.py).                      *)
(* A document's id is its position in documents.                               *)

MaxDocuments == 2
MaxLimit == 1

\* DocumentService.chunk_text as a function, for texts on which it returns
RECURSIVE ChunkTextFrom(_, _, _, _)
ChunkTextFrom(t, from, size, overlap) ==
    IF from >= Len(t) THEN <<>>
    ELSE LET end == ChunkEnd(t, from, size)
             chunk == Strip(Slice(t, from, end))
         IN (IF chunk # <<>> THEN <<chunk>> ELSE <<>>)
                \o ChunkTextFrom(t, NextStart(end, overlap), size, overlap)

ChunkText(t) == ChunkTextFrom(t, 0, chunk_size, chunk_overlap)

\* the values of start and end in the iterations of chunk_text that append
RECURSIVE ChunkSpansFrom(_, _, _, _)
ChunkSpansFrom(t, from, size, overlap) ==
    IF from >= Len(t) THEN <<>>
    ELSE LET end == ChunkEnd(t, from, size)
             chunk == Strip(Slice(t, from, end))
         IN (IF chunk # <<>> THEN <<(<<from, end>>)>> ELSE <<>>)
                \o ChunkSpansFrom(t, NextStart(end, overlap), size, overlap)

ChunkSpans(t) == ChunkSpansFrom(t, 0, chunk_size, chunk_overlap)

DocTitles == {<<"d">>}
Departments == {<<"h">>, <<"e">>}
ContentTypes == {<<"t">>}
Uploaders == {<<"a", "@", "x">>}
\* an empty file, a file of one chunk and a file of two
DocTexts == {<<>>, Rep("a", 1), Rep("a", MaxChunkSize + 1)}
DocDistances == {0, 12}
UploadFailPoints == {<<"none", 0>>, <<"extract", 0>>, <<"chunk", 1>>}
DepartmentFilters == {None, Some(<<>>), Some(<<"h">>)}
ContentTypeFilters == {None, Some(<<"w">>)}

VectorId(n) == <<"vec", n>>

\* an entry an earlier version of the pipeline left in the persistent
\* collection: no department, no document
LegacyEntry ==
    [id |-> VectorId(0), document |-> <<"p">>,
     metadata |-> [title |-> <<"d">>, content_type |-> <<"t">>]]

\* VectorService.add_document_chunk for chunks 0..k-1 of a document
AddDocumentChunks(coll, doc_chunks, k, document_id, title, department, content_type) ==
    coll \o [i \in 1..k |->
                [id |-> VectorId(vids + i),
                 document |-> doc_chunks[i],
                 metadata |-> [document_id |-> document_id,
                               chunk_index |-> i - 1,
                               title |-> title,
                               department |-> department,
                               content_type |-> content_type]]]

\* rows numbered from 1
DocumentChunkRowsOneBased(doc_chunks, document_id) ==
    [i \in 1..Len(doc_chunks) |->
        [document_id |-> document_id,
         content |-> doc_chunks[i],
         chunk_index |-> i,
         start_char |-> (i - 1) * (chunk_size - chunk_overlap),
         end_char |-> i * (chunk_size - chunk_overlap),
         vector_id |-> VectorId(vids + i)]]

DocumentChunkRows(doc_chunks, document_id) ==
    [i \in 1..Len(doc_chunks) |->
        [document_id |-> document_id,
         content |-> doc_chunks[i],
         chunk_index |-> i - 1,
         start_char |-> (i - 1) * (chunk_size - chunk_overlap),
         end_char |-> i * (chunk_size - chunk_overlap),
         vector_id |-> VectorId(vids + i)]]

ChunksOfDocument(rows, document_id) ==
    Cardinality({i \in 1..Len(rows) : rows[i].document_id = document_id})

\* upload_document around process_document.  The HTTPException(400) raised
\* for an empty file is raised inside the try block, whose except branch
\* answers every Exception with status 500.  The Document row is committed
\* before the loop; the index is written chunk by chunk; the DocumentChunk
\* rows are added to the session in the loop and committed after it, so a
\* failure in the loop or of that commit drops them with the session.
UploadDocument(title, department, content_type, uploaded_by, file_text, fail_at) ==
    LET document_id == Len(documents) + 1
        doc_chunks == ChunkText(file_text)
        n == Len(doc_chunks)
        k == IF fail_at[1] = "chunk" THEN fail_at[2] ELSE n
    IN /\ response = NoResponse
       /\ fail_at[1] = "chunk" => fail_at[2] < n
       /\ file_text = <<>> => fail_at[1] = "none"
       /\ IF file_text = <<>>
          THEN /\ response' = [op |-> "upload", status |-> 500, id |-> 0,
                               failed_at |-> <<"empty", 400>>]
               /\ UNCHANGED <<documents, document_chunks, collection, vids>>
          ELSE IF fail_at[1] = "extract"
          THEN /\ response' = [op |-> "upload", status |-> 500, id |-> 0,
                               failed_at |-> fail_at]
               /\ UNCHANGED <<documents, document_chunks, collection, vids>>
          ELSE /\ documents' = Append(documents,
                                      [title |-> title,
                                       department |-> department,
                                       content_type |-> content_type,
                                       uploaded_by |-> uploaded_by,
                                       is_active |-> TRUE])
               /\ collection' = AddDocumentChunks(collection, doc_chunks, k, document_id,
                                                  title, department, content_type)
               /\ vids' = vids + k
               /\ IF fail_at[1] = "none"
                  THEN /\ document_chunks' =
                              document_chunks \o DocumentChunkRows(doc_chunks, document_id)
                       /\ response' = [op |-> "upload", status |-> 200,
                                       id |-> document_id,
                                       file_text |-> file_text,
                                       failed_at |-> fail_at,
                                       chunks_created |->
                                           ChunksOfDocument(document_chunks', document_id)]
                  ELSE /\ UNCHANGED document_chunks
                       /\ response' = [op |-> "upload", status |-> 500,
                                       id |-> document_id, failed_at |-> fail_at]
       /\ UNCHANGED <<simvars, workervars, chatvars, chunkvars, ratevars>>

\* collection.query: the n_results nearest entries, by ascending distance
RECURSIVE Injections(_, _)
Injections(n, S) ==
    IF n = 0 THEN {<<>>}
    ELSE UNION {{<<x>> \o p : p \in Injections(n - 1, S \ {x})} : x \in S}

AscendingDistances(n) ==
    {d \in [1..n -> DocDistances] : \A i \in 1..n, j \in 1..n : i < j => d[i] <= d[j]}

Query(coll, n_results) ==
    LET n == Min(n_results, Len(coll))
    IN {[i \in 1..n |-> [content |-> coll[order[i]].document,
                         distance |-> d[i],
                         metadata |-> coll[order[i]].metadata,
                         id |-> coll[order[i]].id]] :
           order \in Injections(n, 1..Len(coll)), d \in AscendingDistances(n)}

\* a filter that is None or the empty string is not applied
Given(filter) == filter # None /\ filter[1] # <<>>

Skipped(metadata, department, content_type) ==
    \/ Given(department) /\ GetOpt(metadata, "department") # department
    \/ Given(content_type) /\ GetOpt(metadata, "content_type") # content_type

ChunkResult(candidate) ==
    [content |-> candidate.content,
     chunk_index |-> Get(candidate.metadata, "chunk_index", 0),
     relevance_score |-> One - candidate.distance,
     document_id |-> GetOpt(candidate.metadata, "document_id"),
     vector_id |-> candidate.id]

\* the loop of search_documents over the candidates
RECURSIVE ChunkResults(_, _, _, _, _)
ChunkResults(candidates, department, content_type, limit, chunk_results) ==
    IF candidates = <<>> THEN chunk_results
    ELSE IF Skipped(Head(candidates).metadata, department, content_type)
    THEN ChunkResults(Tail(candidates), department, content_type, limit, chunk_results)
    ELSE IF Len(chunk_results) + 1 >= limit
    THEN Append(chunk_results, ChunkResult(Head(candidates)))
    ELSE ChunkResults(Tail(candidates), department, content_type, limit,
                      Append(chunk_results, ChunkResult(Head(candidates))))

\* DocumentChunkResponse needs id, content and chunk_index
DocumentChunkResponseFields == {"id", "content", "chunk_index"}

Validates(chunk_results) ==
    \A i \in 1..Len(chunk_results) :
        DocumentChunkResponseFields \subseteq DOMAIN chunk_results[i]

\* the candidates that pass the request's filters, in rank order
RECURSIVE Matches(_, _, _)
Matches(candidates, department, content_type) ==
    IF candidates = <<>> THEN <<>>
    ELSE (IF Skipped(Head(candidates).metadata, department, content_type)
          THEN <<>> ELSE <<ChunkResult(Head(candidates))>>)
             \o Matches(Tail(candidates), department, content_type)

SearchRequest(department, content_type, limit) ==
    [department |-> department, content_type |-> content_type, limit |-> limit]

\* search_documents; failed: the embedding or the index call raises
SearchDocuments(department, content_type, limit, candidates, failed) ==
    LET chunk_results == ChunkResults(candidates, department, content_type, limit, <<>>)
        document_ids == {chunk_results[i].document_id[1] :
                            i \in {j \in 1..Len(chunk_results) :
                                      chunk_results[j].document_id # None}}
        found == {d \in document_ids : d \in 1..Len(documents) /\ documents[d].is_active}
    IN /\ response = NoResponse
       /\ response' =
              IF failed \/ ~Validates(chunk_results)
              THEN [op |-> "search", status |-> 500,
                    request |-> SearchRequest(department, content_type, limit),
                    matches |-> Matches(candidates, department, content_type),
                    failed |-> failed]
              ELSE [op |-> "search", status |-> 200,
                    request |-> SearchRequest(department, content_type, limit),
                    matches |-> Matches(candidates, department, content_type),
                    failed |-> failed,
                    documents |-> found,
                    chunks |-> chunk_results,
                    total_results |-> Len(chunk_results)]
       /\ UNCHANGED <<documents, document_chunks, collection, vids>>
       /\ UNCHANGED <<simvars, workervars, chatvars, chunkvars, ratevars>>

\* CustomDocumentRetriever._get_relevant_documents over the index
GetRelevantDocuments(candidates) ==
    /\ response = NoResponse
    /\ response' = [op |-> "retrieve", status |-> 200,
                    documents |-> RelevantDocuments(candidates)]
    /\ UNCHANGED <<documents, document_chunks, collection, vids>>
    /\ UNCHANGED <<simvars, workervars, chatvars, chunkvars, ratevars>>

Tagged(coll, document_id) ==
    {i \in 1..Len(coll) :
        /\ "document_id" \in DOMAIN coll[i].metadata
        /\ coll[i].metadata.document_id = document_id}

RECURSIVE Without(_, _)
Without(coll, ids) ==
    IF coll = <<>> THEN <<>>
    ELSE (IF Head(coll).id \in ids THEN <<>> ELSE <<Head(coll)>>)
             \o Without(Tail(coll), ids)

\* collection.delete(ids=...), which refuses an empty list of ids
CollectionDelete(coll, ids) ==
    IF ids = {} THEN [collection |-> coll, error |-> Some("ValueError")]
    ELSE [collection |-> Without(coll, ids), error |-> None]

\* delete_document_chunks that deletes whatever the lookup found
DeleteDocumentChunksUnguarded(coll, document_id) ==
    CollectionDelete(coll, {coll[i].id : i \in Tagged(coll, document_id)})

DeleteDocumentChunks(coll, document_id) ==
    LET ids == {coll[i].id : i \in Tagged(coll, document_id)}
    IN IF ids # {} THEN CollectionDelete(coll, ids)
       ELSE [collection |-> coll, error |-> None]

DeleteFailPoints == {"none", "commit"}

\* delete_document that leaves the index alone
DeleteDocumentRowOnly(document_id, fail_at) ==
    /\ response = NoResponse
    /\ IF document_id \notin 1..Len(documents)
       THEN /\ response' = [op |-> "delete", status |-> 404, id |-> document_id]
            /\ UNCHANGED <<documents, collection>>
       ELSE /\ response' = [op |-> "delete", status |-> 200, id |-> document_id]
            /\ documents' = [documents EXCEPT ![document_id].is_active = FALSE]
            /\ UNCHANGED collection
    /\ UNCHANGED <<document_chunks, vids>>
    /\ UNCHANGED <<simvars, workervars, chatvars, chunkvars, ratevars>>

\* delete_document: the lookup does not look at is_active; the index is
\* written before the row, and a failed commit rolls back the row only
DeleteDocument(document_id, fail_at) ==
    /\ response = NoResponse
    /\ IF document_id \notin 1..Len(documents)
       THEN /\ response' = [op |-> "delete", status |-> 404, id |-> document_id]
            /\ UNCHANGED <<documents, collection>>
       ELSE LET deleted == DeleteDocumentChunks(collection, document_id)
            IN IF fail_at = "vector" \/ deleted.error # None
               THEN /\ response' = [op |-> "delete", status |-> 500, id |-> document_id]
                    /\ UNCHANGED <<documents, collection>>
               ELSE /\ collection' = deleted.collection
                    /\ IF fail_at = "commit"
                       THEN /\ response' = [op |-> "delete", status |-> 500,
                                            id |-> document_id]
                            /\ UNCHANGED documents
                       ELSE /\ response' = [op |-> "delete", status |-> 200,
                                            id |-> document_id]
                            /\ documents' = [documents EXCEPT
                                                ![document_id].is_active = FALSE]
    /\ UNCHANGED <<document_chunks, vids>>
    /\ UNCHANGED <<simvars, workervars, chatvars, chunkvars, ratevars>>

\* the client takes the response; requests are served one at a time
DocReturn ==
    /\ response # NoResponse
    /\ response' = NoResponse
    /\ UNCHANGED <<docvars, simvars, workervars, chatvars, chunkvars, ratevars>>

\* a service configured for short chunks
DocInit ==
    /\ text = <<>>
    /\ chunk_size = MaxChunkSize
    /\ chunk_overlap = 1
    /\ start = 0
    /\ chunks = <<>>
    /\ spans = <<>>
    /\ cpc = "off"
    /\ documents = <<>>
    /\ document_chunks = <<>>
    /\ collection \in {<<>>, <<LegacyEntry>>}
    /\ vids = 0
    /\ response = NoResponse

DocSpecInit == ChatInit /\ DocInit /\ SimIdle /\ WorkersIdle /\ RateIdle

DocNext ==
    \/ \E title \in DocTitles, department \in Departments, content_type \in ContentTypes,
          uploaded_by \in Uploaders, file_text \in DocTexts, fail_at \in UploadFailPoints :
          /\ Len(documents) < MaxDocuments
          /\ UploadDocument(title, department, content_type, uploaded_by, file_text, fail_at)
    \/ \E department \in DepartmentFilters, content_type \in ContentTypeFilters,
          limit \in 1..MaxLimit :
          \E candidates \in Query(collection, limit * 2) :
              SearchDocuments(department, content_type, limit, candidates, FALSE)
    \/ \E department \in DepartmentFilters, limit \in 1..MaxLimit :
          SearchDocuments(department, None, limit, <<>>, TRUE)
    \/ \E candidates \in Query(collection, TopK) : GetRelevantDocuments(candidates)
    \/ \E document_id \in 1..(Len(documents) + 1), fail_at \in DeleteFailPoints :
          DeleteDocument(document_id, fail_at)
    \/ DocReturn

DocSpec == DocSpecInit /\ [][DocNext]_vars

\* the requests that write the stores
IngestNext ==
    \/ \E title \in DocTitles, department \in Departments, content_type \in ContentTypes,
          uploaded_by \in Uploaders, file_text \in DocTexts, fail_at \in UploadFailPoints :
          /\ Len(documents) < MaxDocuments
          /\ UploadDocument(title, department, content_type, uploaded_by, file_text, fail_at)
    \/ \E document_id \in 1..(Len(documents) + 1), fail_at \in DeleteFailPoints :
          DeleteDocument(document_id, fail_at)
    \/ DocReturn

IngestSpec == DocSpecInit /\ [][IngestNext]_vars

----------------------------------------------------------------------------
(* Properties of ingestion, search and deletion *)

\* C12: when process_document fails at chunk j, the index entries and the
\* DocumentChunk rows of chunks 0..j-1 of that document are persisted.
C12_PartialIngestionKept ==
    (response.op = "upload" /\ response.status = 500 /\ response.failed_at[1] = "chunk") =>
        /\ Cardinality(Tagged(collection, response.id)) = response.failed_at[2]
        /\ ChunksOfDocument(document_chunks, response.id) = response.failed_at[2]

\* C13: a search whose external calls succeed answers with the first
\* min(limit, m) of the m candidates that pass the filters, in rank order.
C13_SearchReturnsFirstMatches ==
    (response.op = "search" /\ ~response.failed) =>
        /\ response.status = 200
        /\ response.chunks = Take(response.matches, response.request.limit)
        /\ response.total_results <= response.request.limit

NonIncreasing(scores) ==
    \A i \in 1..Len(scores), j \in 1..Len(scores) : i < j => scores[i] >= scores[j]

\* C14: the documents the chat retriever returns, and the chunks
\* search_documents selects and returns, are non-increasing in relevance
\* score by rank.
C14_RankedByRelevance ==
    /\ response.op = "retrieve" =>
          NonIncreasing([i \in 1..Len(response.documents) |->
                            response.documents[i].metadata.relevance_score])
    /\ response.op = "search" =>
          NonIncreasing([i \in 1..Len(response.matches) |->
                            response.matches[i].relevance_score])
    /\ (response.op = "search" /\ response.status = 200) =>
          NonIncreasing([i \in 1..Len(response.chunks) |->
                            response.chunks[i].relevance_score])

C14_Witness ==
    /\ response.op = "retrieve"
    /\ Len(response.documents) >= 3
    /\ response.documents[1].metadata.relevance_score
           > response.documents[3].metadata.relevance_score

IsTagged(entry, document_id) ==
    /\ "document_id" \in DOMAIN entry.metadata
    /\ entry.metadata.document_id = document_id

RECURSIVE Untagged(_, _)
Untagged(coll, document_id) ==
    IF coll = <<>> THEN <<>>
    ELSE IF IsTagged(Head(coll), document_id) THEN Untagged(Tail(coll), document_id)
    ELSE <<Head(coll)>> \o Untagged(Tail(coll), document_id)

\* C15: on every collection the service reaches, delete_document_chunks(d)
\* raises nothing, leaves no entry of d, keeps every other entry, and a
\* second call changes nothing and raises nothing.
C15_DeleteByDocumentIdempotent ==
    \A d \in 0..(Len(documents) + 1) :
        LET once == DeleteDocumentChunks(collection, d)
            twice == DeleteDocumentChunks(once.collection, d)
        IN /\ once.error = None
           /\ \A i \in 1..Len(once.collection) : ~IsTagged(once.collection[i], d)
           /\ once.collection = Untagged(collection, d)
           /\ twice.error = None
           /\ twice.collection = once.collection

C15_Witness ==
    /\ response.op = "delete"
    /\ response.status = 200
    /\ ChunksOfDocument(document_chunks, response.id) = 2
    /\ Tagged(collection, response.id) = {}
    /\ \E d \in 1..Len(documents) : Cardinality(Tagged(collection, d)) = 2

Inactive == {d \in 1..Len(documents) : ~documents[d].is_active}

\* C16: a deleted document keeps its row, inactive for good, has no entry in
\* the index, and no search or chat retrieval answers with one of its chunks.
C16_DeletedDocumentNotRetrieved ==
    [][/\ \A d \in Inactive : d \in Inactive'
       /\ \A d \in Inactive' : Tagged(collection', d) = {}
       /\ response'.op = "retrieve" =>
             \A i \in 1..Len(response'.documents) :
                 \A d \in Inactive' :
                     response'.documents[i].metadata.document_id # Some(d)
       /\ response'.op = "search" =>
             \A i \in 1..Len(response'.matches) :
                 \A d \in Inactive' : response'.matches[i].document_id # Some(d)
       /\ (response'.op = "search" /\ response'.status = 200) =>
             /\ response'.documents \cap Inactive' = {}
             /\ \A i \in 1..Len(response'.chunks) :
                   \A d \in Inactive' : response'.chunks[i].document_id # Some(d)]_vars

C16_Witness ==
    /\ response.op = "retrieve"
    /\ 1 \in Inactive
    /\ ChunksOfDocument(document_chunks, 1) = 2
    /\ Len(documents) = 2
    /\ Len(response.documents) >= 2

----------------------------------------------------------------------------
(* EmbeddingService.calculate_similarity (app/services/embedding_service.py) *)

MaxDim == 2

Components == {-1, 0, 1}
Embeddings == UNION {[1..n -> Components] : n \in 0..MaxDim}

RECURSIVE Dot(_, _)
Dot(vec1, vec2) ==
    IF vec1 = <<>> THEN 0
    ELSE Head(vec1) * Head(vec2) + Dot(Tail(vec1), Tail(vec2))

\* the square of np.linalg.norm
NormSquared(vec) == Dot(vec, vec)

\* The cosine is kept as the dot product and the square of the product of the
\* norms.  numpy divides floats without raising: 0/0 is nan, x/0 is inf.
CalculateSimilarity(vec1, vec2) ==
    IF Len(vec1) # Len(vec2)
    THEN [kind |-> "error", error |-> "ValueError"]
    ELSE IF NormSquared(vec1) * NormSquared(vec2) = 0
    THEN IF Dot(vec1, vec2) = 0 THEN [kind |-> "nan"] ELSE [kind |-> "inf"]
    ELSE [kind |-> "number",
          dot_product |-> Dot(vec1, vec2),
          norms_squared |-> NormSquared(vec1) * NormSquared(vec2)]

CalculateSimilarityCall ==
    /\ spc = "call"
    /\ similarity' = Some(CalculateSimilarity(embedding1, embedding2))
    /\ spc' = "done"
    /\ UNCHANGED <<embedding1, embedding2>>
    /\ UNCHANGED <<docvars, response, workervars, chatvars, chunkvars, ratevars>>

SimInit ==
    /\ embedding1 \in Embeddings
    /\ embedding2 \in Embeddings
    /\ similarity = None
    /\ spc = "call"

SimSpecInit == ChatInit /\ ChunkIdle /\ DocIdle /\ SimInit /\ WorkersIdle /\ RateIdle

SimNext == CalculateSimilarityCall

SimSpec == SimSpecInit /\ [][SimNext]_vars

\* C17: for a vector of zero magnitude calculate_similarity ends in an
\* error, never in a value.
C17_ZeroMagnitudeFails ==
    (/\ spc = "done"
     /\ \/ NormSquared(embedding1) = 0
        \/ NormSquared(embedding2) = 0) =>
        similarity[1].kind = "error"

----------------------------------------------------------------------------
(* submit_message_feedback (app/api/chat.py) and the chat operations that   *)
(* run beside it, one request at a time.  A message's id is its position    *)
(* in messages.                                                             *)

MaxFeedbackCalls == 2

FeedbackInputs == {-2, -1, 1, 2}
FeedbackMessages == {Rep("r", 11)}

\* MessageFeedbackRequest: feedback: int = Field(..., ge=-1, le=1)
ValidFeedback(feedback) == feedback >= -1 /\ feedback <= 1

FeedbackResponse(status, message_id, feedback) ==
    [op |-> "feedback", status |-> status, message_id |-> message_id,
     feedback |-> feedback]

\* the handler with a lookup by id alone
SubmitMessageFeedbackAnyAuthor(message_id, feedback, ok) ==
    /\ pc = "idle"
    /\ response = NoResponse
    /\ IF ~ValidFeedback(feedback)
       THEN /\ response' = FeedbackResponse(422, message_id, feedback)
            /\ UNCHANGED messages
       ELSE IF message_id \notin 1..Len(messages)
       THEN /\ response' = FeedbackResponse(404, message_id, feedback)
            /\ UNCHANGED messages
       ELSE IF ~ok
       THEN /\ response' = FeedbackResponse(500, message_id, feedback)
            /\ UNCHANGED messages
       ELSE /\ response' = FeedbackResponse(200, message_id, feedback)
            /\ messages' = [messages EXCEPT ![message_id].user_feedback = Some(feedback)]
    /\ UNCHANGED <<users, conversations, memory, now, uuids,
                   pc, req, conv, user_msg, ai_msg, chain_out, result, titled, calls>>
    /\ UNCHANGED <<docvars, simvars, workervars, chunkvars, ratevars>>

\* ok = FALSE: the commit fails and is rolled back
SubmitMessageFeedback(message_id, feedback, ok) ==
    /\ pc = "idle"
    /\ response = NoResponse
    /\ IF ~ValidFeedback(feedback)
       THEN /\ response' = FeedbackResponse(422, message_id, feedback)
            /\ UNCHANGED messages
       ELSE IF \/ message_id \notin 1..Len(messages)
               \/ messages[message_id].is_user_message
       THEN /\ response' = FeedbackResponse(404, message_id, feedback)
            /\ UNCHANGED messages
       ELSE IF ~ok
       THEN /\ response' = FeedbackResponse(500, message_id, feedback)
            /\ UNCHANGED messages
       ELSE /\ response' = FeedbackResponse(200, message_id, feedback)
            /\ messages' = [messages EXCEPT ![message_id].user_feedback = Some(feedback)]
    /\ UNCHANGED <<users, conversations, memory, now, uuids,
                   pc, req, conv, user_msg, ai_msg, chain_out, result, titled, calls>>
    /\ UNCHANGED <<docvars, simvars, workervars, chunkvars, ratevars>>

FeedbackNext ==
    \/ \E email \in ScoreEmails, msg \in FeedbackMessages,
          sid \in SessionIdInputs, tick \in Ticks :
          /\ calls < MaxFeedbackCalls
          /\ response = NoResponse
          /\ GenerateResponse(email, msg, sid, "none", tick)
    \/ RunChain(TRUE, "LLMError", [answer |-> <<>>, hits |-> <<>>])
    \/ \E out \in ChainSuccesses(0) : RunChain(FALSE, "", out)
    \/ \E tick \in Ticks : FinishResponse("none", tick)
    \/ Return
    \/ \E message_id \in 1..(Len(messages) + 1), feedback \in FeedbackInputs, ok \in BOOLEAN :
          SubmitMessageFeedback(message_id, feedback, ok)
    \/ DocReturn
    \/ \E sid \in KnownSessionIds, email \in ScoreEmails :
          /\ response = NoResponse
          /\ DeleteConversation(sid, email, TRUE)
    \/ \E sid \in KnownSessionIds, title \in NewTitles, email \in ScoreEmails :
          /\ response = NoResponse
          /\ UpdateConversationTitle(sid, title, email, TRUE)

FeedbackSpec == Init /\ [][FeedbackNext]_vars

\* C18: no step removes a message or changes a persisted message apart from
\* its user_feedback; user_feedback changes only to -1, 0 or 1, only on an
\* assistant message and only by a feedback request answered 200; a valid
\* request naming a user message or no message is answered 404 and changes
\* no message.
C18_MessagesImmutableButFeedback ==
    [][/\ Len(messages') >= Len(messages)
       /\ \A i \in 1..Len(messages) :
             /\ [messages'[i] EXCEPT !.user_feedback = messages[i].user_feedback]
                    = messages[i]
             /\ messages'[i].user_feedback # messages[i].user_feedback =>
                   /\ ~messages[i].is_user_message
                   /\ messages'[i].user_feedback \in {Some(-1), Some(0), Some(1)}
                   /\ response' = FeedbackResponse(200, i, messages'[i].user_feedback[1])
       /\ (/\ response = NoResponse
           /\ response'.op = "feedback"
           /\ ValidFeedback(response'.feedback)
           /\ \/ response'.message_id \notin 1..Len(messages)
              \/ messages[response'.message_id].is_user_message) =>
              /\ response'.status = 404
              /\ messages' = messages]_vars

C18_Witness ==
    /\ response.op = "feedback"
    /\ response.status = 200
    /\ messages[response.message_id].user_feedback = Some(-1)
    /\ Len(messages) = 4

----------------------------------------------------------------------------
(* generate_response run by several callers on the one ChatService, each    *)
(* step ending where the call waits for the store or for the model.  The    *)
(* memory is the instance's; conversation, request and history handed to    *)
(* the chain are the call's own.                                            *)

MaxWorkerCalls == 3
MemoryWindow == 5

WorkerEmail(w) == <<"u", "@", "x">>
WorkerSession(w) == Some(<<"client", w>>)
WorkerMessage(w) == IF w = 1 THEN Rep("q", 10) ELSE Rep("s", 51)

\* ConversationBufferWindowMemory(k=5): the last k exchanges
Window(history) ==
    IF Len(history) <= 2 * MemoryWindow THEN history
    ELSE SubSeq(history, Len(history) - 2 * MemoryWindow + 1, Len(history))

\* get_or_create_conversation, then memory.clear(); the history query is sent
WorkerBegin(w) ==
    /\ tpc[w] = "off"
    /\ calls < MaxWorkerCalls
    /\ LET r == GetOrCreateConversation(WorkerEmail(w), WorkerSession(w), "none")
       IN /\ r.error = None
          /\ users' = r.users
          /\ conversations' = r.conversations
          /\ uuids' = r.uuids
          /\ tconv' = [tconv EXCEPT ![w] = r.conversation]
    /\ treq' = [treq EXCEPT ![w] = [user_email |-> WorkerEmail(w),
                                    user_message |-> WorkerMessage(w),
                                    session_id |-> WorkerSession(w)]]
    /\ memory' = <<>>
    /\ tpc' = [tpc EXCEPT ![w] = "load"]
    /\ calls' = calls + 1
    /\ UNCHANGED <<messages, now, pc, req, conv, user_msg, ai_msg, chain_out,
                   result, titled, handed>>
    /\ UNCHANGED <<docvars, response, simvars, chunkvars, ratevars>>

\* the query answers; its rows are added to the memory; save_message commits
WorkerLoad(w) ==
    /\ tpc[w] = "load"
    /\ \E order \in OrderByTimestamp(ConversationMessages(tconv[w])) :
          memory' = memory \o LoadedHistory(order)
    /\ tpc' = [tpc EXCEPT ![w] = "save"]
    /\ UNCHANGED <<users, conversations, messages, now, uuids, pc, req, conv,
                   user_msg, ai_msg, chain_out, result, titled, calls,
                   treq, tconv, handed>>
    /\ UNCHANGED <<docvars, response, simvars, chunkvars, ratevars>>

\* the user message is committed; the chain reads the memory and calls out
WorkerChain(w, tick) ==
    /\ tpc[w] = "save"
    /\ LET saved == SaveMessage(conversations, tconv[w], treq[w].user_message,
                                TRUE, None, None, now + tick)
       IN /\ messages' = saved.messages
          /\ conversations' = saved.conversations
    /\ now' = now + tick
    /\ handed' = [handed EXCEPT ![w] = Window(memory)]
    /\ tpc' = [tpc EXCEPT ![w] = "chain"]
    /\ UNCHANGED <<users, memory, uuids, pc, req, conv, user_msg, ai_msg,
                   chain_out, result, titled, calls, treq, tconv>>
    /\ UNCHANGED <<docvars, response, simvars, chunkvars, ratevars>>

\* the answer arrives: save_context, the assistant message, the title, return
WorkerFinish(w, answer, tick) ==
    /\ tpc[w] = "chain"
    /\ memory' = memory \o <<[is_user |-> TRUE, content |-> treq[w].user_message],
                             [is_user |-> FALSE, content |-> answer]>>
    /\ LET saved == SaveMessage(conversations, tconv[w], answer, FALSE,
                                Some(<<>>), None, now + tick)
           retitle == NeedsTitle(conversations[tconv[w]].title, treq[w].user_message)
       IN /\ messages' = saved.messages
          /\ conversations' =
                IF retitle
                THEN [saved.conversations EXCEPT
                         ![tconv[w]].title = TitleOf(treq[w].user_message)]
                ELSE saved.conversations
          /\ titled' = IF retitle THEN titled \cup {tconv[w]} ELSE titled
    /\ now' = now + tick
    /\ tpc' = [tpc EXCEPT ![w] = "off"]
    /\ treq' = [treq EXCEPT ![w] = NoRequest]
    /\ tconv' = [tconv EXCEPT ![w] = 0]
    /\ handed' = [handed EXCEPT ![w] = <<>>]
    /\ UNCHANGED <<users, uuids, pc, req, conv, user_msg, ai_msg, chain_out,
                   result, calls>>
    /\ UNCHANGED <<docvars, response, simvars, chunkvars, ratevars>>

WorkerNext ==
    \/ \E w \in Workers : WorkerBegin(w)
    \/ \E w \in Workers : WorkerLoad(w)
    \/ \E w \in Workers, tick \in Ticks : WorkerChain(w, tick)
    \/ \E w \in Workers, answer \in Answers, tick \in Ticks : WorkerFinish(w, answer, tick)

WorkerSpec == Init /\ [][WorkerNext]_vars

\* C19: the history a call hands to the chain holds only messages persisted
\* in the call's own conversation.
C19_HistoryOfOwnConversation ==
    \A w \in Workers :
        tpc[w] = "chain" =>
            \A i \in 1..Len(handed[w]) :
                \E m \in ConversationMessages(tconv[w]) :
                    MemoryEntry(messages[m]) = handed[w][i]

----------------------------------------------------------------------------
(* Titles given by generate_response alone: no request renames a           *)
(* conversation here.                                                       *)

MaxTitleCalls == 2

TitleMessages == {Rep("q", 10), Rep("r", 11), Rep("s", 51)}

TitleNext ==
    \/ \E email \in ScoreEmails, msg \in TitleMessages,
          sid \in SessionIdInputs, tick \in Ticks :
          /\ calls < MaxTitleCalls
          /\ GenerateResponse(email, msg, sid, "none", tick)
    \/ RunChain(TRUE, "LLMError", [answer |-> <<>>, hits |-> <<>>])
    \/ \E out \in ChainSuccesses(0) : RunChain(FALSE, "", out)
    \/ \E tick \in Ticks : FinishResponse("none", tick)
    \/ Return

TitleSpec == Init /\ [][TitleNext]_vars

Substantive(c) ==
    {i \in ConversationMessages(c) :
        /\ messages[i].is_user_message
        /\ Len(messages[i].content) > TitleThreshold}

\* C20: a title that is not the placeholder is the conversation's first user
\* message of more than 10 characters, cut to 50 characters, with "..." added
\* exactly when the message is longer than that.
C20_TitleIsFirstSubstantiveMessage ==
    \A c \in 1..Len(conversations) :
        conversations[c].title # NewChat =>
            /\ Substantive(c) # {}
            /\ LET first == messages[MinOf(Substantive(c))].content
               IN conversations[c].title =
                      IF Len(first) > TitleLen
                      THEN SubSeq(first, 1, TitleLen) \o Ellipsis
                      ELSE first

----------------------------------------------------------------------------
(* Properties of the rows and entries process_document writes *)

RowsOfDocument(document_id) ==
    SelectSeq(document_chunks, LAMBDA row : row.document_id = document_id)

Uploaded == response.op = "upload" /\ response.status = 200

\* C21: after a successful upload, row i of the document records the start
\* and end at which chunk_text cut chunk i: the first row starts at 0 and
\* each later row starts at the end of the row before it less chunk_overlap.
C21_RowsRecordSpans ==
    Uploaded =>
        LET rows == RowsOfDocument(response.id)
            cut == ChunkSpans(response.file_text)
        IN /\ Len(rows) = Len(cut)
           /\ \A i \in 1..Len(rows) :
                 /\ rows[i].start_char = cut[i][1]
                 /\ rows[i].end_char = cut[i][2]
           /\ rows # <<>> => rows[1].start_char = 0
           /\ \A i \in 2..Len(rows) :
                 rows[i].start_char = rows[i - 1].end_char - chunk_overlap

NonWhitespace(t) == \E i \in 1..Len(t) : t[i] # " "

\* C22: for a text with a non-whitespace character that is no longer than
\* chunk_size, chunk_text returns exactly one chunk.
C22_ShortTextOneChunk ==
    (/\ cpc = "done"
     /\ NonWhitespace(text)
     /\ Len(text) <= chunk_size) =>
        Len(chunks) = 1

EntriesOfDocument(document_id) ==
    SelectSeq(collection, LAMBDA entry : IsTagged(entry, document_id))

\* C23: after a successful upload of a text of n chunks the document has n
\* rows and n index entries, numbered 0..n-1 in chunk order; entry i carries
\* the document's id, its index, title, department and content type; row i
\* stores the id of entry i; and every row and entry, also after a failed
\* upload, belongs to a committed Document row.
C23_RowsAndEntriesOfUpload ==
    /\ Uploaded =>
          LET d == response.id
              rows == RowsOfDocument(d)
              entries == EntriesOfDocument(d)
              cut == ChunkText(response.file_text)
          IN /\ d \in 1..Len(documents)
             /\ Len(rows) = Len(cut)
             /\ Len(entries) = Len(cut)
             /\ \A i \in 1..Len(cut) :
                   /\ rows[i].chunk_index = i - 1
                   /\ rows[i].content = cut[i]
                   /\ entries[i].document = cut[i]
                   /\ entries[i].metadata =
                          [document_id |-> d,
                           chunk_index |-> i - 1,
                           title |-> documents[d].title,
                           department |-> documents[d].department,
                           content_type |-> documents[d].content_type]
                   /\ rows[i].vector_id = entries[i].id
                   /\ \A j \in 1..Len(collection) :
                         collection[j].id = entries[i].id => collection[j] = entries[i]
    /\ \A i \in 1..Len(document_chunks) :
          document_chunks[i].document_id \in 1..Len(documents)
    /\ \A j \in 1..Len(collection) :
          "document_id" \in DOMAIN collection[j].metadata =>
              collection[j].metadata.document_id \in 1..Len(documents)

C23_Witness ==
    /\ Uploaded
    /\ response.id = 2
    /\ Len(RowsOfDocument(2)) = 2
    /\ Len(EntriesOfDocument(1)) = 1
    /\ RowsOfDocument(1) = <<>>

----------------------------------------------------------------------------
(* generate_response over an index of up to TopK + 1 entries whose chunks  *)
(* are as long as the excerpt or one character longer.  The question ranks *)
(* the entries in the order of the collection.                              *)

MaxSourceCalls == 1

SourceChunkTexts == {Rep("p", ExcerptLen), Rep("p", ExcerptLen + 1)}

SourceEntry(i, content) ==
    [id |-> VectorId(i), document |-> content,
     metadata |-> [document_id |-> i, chunk_index |-> 0, title |-> <<"d">>,
                   department |-> <<"h">>, content_type |-> <<"t">>]]

SourceCollections ==
    UNION {{[i \in 1..n |-> SourceEntry(i, contents[i])] :
               contents \in [1..n -> SourceChunkTexts]} : n \in 0..(TopK + 1)}

RankedQuery(coll, n_results) ==
    {hits \in Query(coll, n_results) :
        \A i \in 1..Len(hits) : hits[i].id = coll[i].id /\ hits[i].distance = 12}

SourceInit ==
    /\ documents = <<>>
    /\ document_chunks = <<>>
    /\ collection \in SourceCollections
    /\ vids = TopK + 1
    /\ response = NoResponse

SourceSpecInit == ChatInit /\ ChunkIdle /\ SourceInit /\ SimIdle /\ WorkersIdle /\ RateIdle

SourceNext ==
    \/ \E email \in ScoreEmails, msg \in ScoreMessages, tick \in Ticks :
          /\ calls < MaxSourceCalls
          /\ GenerateResponse(email, msg, None, "none", tick)
    \/ RunChain(TRUE, "LLMError", [answer |-> <<>>, hits |-> <<>>])
    \/ \E answer \in Answers, hits \in RankedQuery(collection, TopK) :
          RunChain(FALSE, "", [answer |-> answer, hits |-> hits])
    \/ \E tick \in Ticks : FinishResponse("none", tick)
    \/ Return

SourceSpec == SourceSpecInit /\ [][SourceNext]_vars

\* C24: a successful call lists one attribution per retrieved chunk, in
\* retrieval order and at most TopK of them; the chunk_content of each is the
\* chunk itself when it has at most 200 characters, and otherwise its first
\* 200 characters followed by "...".
C24_SourcesAreExcerpts ==
    Succeeded =>
        LET sources == result[1].sources
            n == Min(TopK, Len(collection))
        IN /\ Len(sources) = n
           /\ Len(sources) <= TopK
           /\ messages[ai_msg].source_documents = Some(sources)
           /\ \A i \in 1..n :
                 /\ sources[i].document_id = Some(collection[i].metadata.document_id)
                 /\ sources[i].chunk_content =
                        IF Len(collection[i].document) <= 200
                        THEN collection[i].document
                        ELSE SubSeq(collection[i].document, 1, 200) \o <<".", ".", ".">>

C24_Witness ==
    /\ Succeeded
    /\ Len(collection) = TopK + 1
    /\ Len(result[1].sources) = TopK
    /\ Len(result[1].sources[1].chunk_content) = 200
    /\ Len(result[1].sources[2].chunk_content) = 203

----------------------------------------------------------------------------
(* One conversation whose messages may be stored within the same tick of   *)
(* the database clock (server_default=func.now()).                          *)

MaxTieCalls == 2

TieTicks == {0, 1}

TieNext ==
    \/ \E email \in ScoreEmails, msg \in HistoryMessages, tick \in TieTicks :
          /\ calls < MaxTieCalls
          /\ GenerateResponse(email, msg, Some(<<"client", 1>>), "none", tick)
    \/ RunChain(TRUE, "LLMError", [answer |-> <<>>, hits |-> <<>>])
    \/ \E out \in ChainSuccesses(0) : RunChain(FALSE, "", out)
    \/ \E tick \in TieTicks : FinishResponse("none", tick)
    \/ Return

TieSpec == Init /\ [][TieNext]_vars

\* C25: the history is fed to the memory in the order of the timestamps, and
\* messages of equal timestamp in the order of their ids: with at most ten
\* earlier messages the memory holds them in the order they were inserted.
C25_HistoryInInsertionOrder ==
    (pc = "chain" /\ Len(Earlier) <= HistoryLimit) =>
        /\ \A i \in 1..Len(Earlier), j \in 1..Len(Earlier) :
               i < j => messages[Earlier[i]].timestamp <= messages[Earlier[j]].timestamp
        /\ memory = [i \in 1..Len(Earlier) |-> MemoryEntry(messages[Earlier[i]])]

----------------------------------------------------------------------------
(* Properties of the messages generate_response appends, one call at a time *)

MaxExchangeCalls == 2

\* one user's calls, with every failure of the store and of the chain
ExchangeNext ==
    \/ \E email \in ScoreEmails, msg \in ScoreMessages, sid \in SessionIdInputs,
          fail_at \in FailPoints, tick \in Ticks :
          /\ calls < MaxExchangeCalls
          /\ GenerateResponse(email, msg, sid, fail_at, tick)
    \/ \E e \in ChainErrors : RunChain(TRUE, e, [answer |-> <<>>, hits |-> <<>>])
    \/ \E out \in ChainSuccesses(0) : RunChain(FALSE, "", out)
    \/ \E fail_at \in LateFailPoints, tick \in Ticks : FinishResponse(fail_at, tick)
    \/ Return

ExchangeSpec == Init /\ [][ExchangeNext]_vars

\* message i of the table is an assistant message whose conversation holds
\* no user message directly before it
Unprompted(table, i) ==
    /\ ~table[i].is_user_message
    /\ ~\E j \in 1..(i - 1) :
           /\ table[j].conversation_id = table[i].conversation_id
           /\ table[j].is_user_message
           /\ \A k \in (j + 1)..(i - 1) :
                  table[k].conversation_id # table[i].conversation_id

\* C26: in every conversation each assistant message comes directly after a
\* user message.  A call that fails while resolving the conversation appends
\* nothing; a call that reaches the chain has appended one user message, and
\* the chain appends nothing; a successful call then appends one assistant
\* message and returns its id.  No other step changes the messages.
C26_UserThenAssistant ==
    [][/\ \A i \in 1..Len(messages') : ~Unprompted(messages', i)
       /\ (Entering /\ conv' = 0) => messages' = messages
       /\ (Entering /\ pc' = "chain") =>
             /\ Len(messages') = Len(messages) + 1
             /\ SubSeq(messages', 1, Len(messages)) = messages
             /\ messages'[Len(messages')].is_user_message
             /\ messages'[Len(messages')].conversation_id = conv'
             /\ messages'[Len(messages')].content = req'.user_message
       /\ pc = "chain" => messages' = messages
       /\ (pc = "answer" /\ "error" \notin DOMAIN result'[1]) =>
             /\ Len(messages') = Len(messages) + 1
             /\ SubSeq(messages', 1, Len(messages)) = messages
             /\ ~messages'[Len(messages')].is_user_message
             /\ messages'[Len(messages')].conversation_id = conv
             /\ messages'[Len(messages')].content = result'[1].response
             /\ user_msg = Len(messages)
             /\ result'[1].message_id = Some(Len(messages'))
       /\ pc = "done" => messages' = messages]_vars

C26_Witness ==
    /\ Succeeded
    /\ result[1].message_id = Some(3)
    /\ ConversationMessages(conv) = {1, 2, 3}
    /\ messages[1].is_user_message
    /\ messages[2].is_user_message

----------------------------------------------------------------------------
(* Properties of the confidence score *)

\* C27: every confidence score returned by generate_response or stored on an
\* assistant message lies between 0 and 1.
C27_ConfidenceInUnitRange ==
    /\ (Succeeded /\ result[1].confidence_score # None) =>
           /\ result[1].confidence_score[1] >= 0
           /\ result[1].confidence_score[1] <= One
    /\ \A i \in 1..Len(messages) :
           messages[i].confidence_score # None =>
               /\ messages[i].confidence_score[1] >= 0
               /\ messages[i].confidence_score[1] <= One

----------------------------------------------------------------------------
(* Two users, each calling with any session id there is *)

MaxOwnerCalls == 2

OwnerFailPoints == {"none", "user", "conversation"}

OwnerNext ==
    \/ \E email \in Emails, msg \in FeedbackMessages, sid \in SessionIdInputs,
          fail_at \in OwnerFailPoints, tick \in Ticks :
          /\ calls < MaxOwnerCalls
          /\ GenerateResponse(email, msg, sid, fail_at, tick)
    \/ RunChain(TRUE, "LLMError", [answer |-> <<>>, hits |-> <<>>])
    \/ \E out \in ChainSuccesses(0) : RunChain(FALSE, "", out)
    \/ \E tick \in Ticks : FinishResponse("none", tick)
    \/ Return
    \/ \E sid \in KnownSessionIds, email \in Emails :
          DeleteConversation(sid, email, TRUE)

OwnerSpec == Init /\ [][OwnerNext]_vars

\* request r names conversation c, which belongs to another user
Intruding(c, r) ==
    /\ r.session_id = Some(conversations[c].session_id)
    /\ users[conversations[c].user_id].email # r.user_email

\* C28: no step of a call that names the conversation of another user
\* appends a message to that conversation or changes the conversation.
C28_OtherUsersConversationUntouched ==
    [][\A c \in 1..Len(conversations) :
          (\/ Entering /\ Intruding(c, req')
           \/ pc \in {"chain", "answer"} /\ Intruding(c, req)) =>
              /\ conversations'[c] = conversations[c]
              /\ \A i \in 1..Len(messages') :
                    messages'[i].conversation_id = c =>
                        /\ i <= Len(messages)
                        /\ messages'[i] = messages[i]]_vars

C28_Witness ==
    /\ Failed
    /\ \E c \in 1..Len(conversations) :
          /\ Intruding(c, req)
          /\ conversations[c].is_active
          /\ conversations[c].title # NewChat
          /\ Cardinality(ConversationMessages(c)) = 2

----------------------------------------------------------------------------
(* Properties of upload_document *)

\* C29: the upload of an empty file is answered 400 and creates no Document
\* row, no DocumentChunk row and no index entry.
C29_EmptyFileRejected ==
    [][(response'.op = "upload" /\ response'.failed_at[1] = "empty") =>
           /\ response'.status = 400
           /\ UNCHANGED <<documents, document_chunks, collection>>]_vars

----------------------------------------------------------------------------
(* SecurityMiddleware.is_rate_limited (app/core/security.py).  The clock   *)
(* counts fractions of the hour; log is the history of the calls.          *)

MaxRateCalls == 4
MaxTime == 3
\* the length of timedelta(hours=1) in ticks of the clock
Hour == 2
\* limit_per_hour of an authenticated user and of an address
UserLimitPerHour == 2
IpLimitPerHour == 1

LimitPerHour(identifier) ==
    IF identifier[1] = "user:" THEN UserLimitPerHour ELSE IpLimitPerHour

\* the check that admits a call when the count equals the limit
RateLimitedInclusive(entries, at, limit_per_hour) ==
    LET hour_ago == at - Hour
        kept == SelectSeq(entries, LAMBDA timestamp : timestamp > hour_ago)
        current_count == Len(kept)
    IN IF current_count > limit_per_hour
       THEN [entries |-> kept, limited |-> TRUE, remaining |-> 0]
       ELSE [entries |-> Append(kept, at), limited |-> FALSE,
             remaining |-> limit_per_hour - current_count - 1]

\* the list of the key after the call, and the pair the call returns
RateLimited(entries, at, limit_per_hour) ==
    LET hour_ago == at - Hour
        kept == SelectSeq(entries, LAMBDA timestamp : timestamp > hour_ago)
        current_count == Len(kept)
    IN IF current_count >= limit_per_hour
       THEN [entries |-> kept, limited |-> TRUE, remaining |-> 0]
       ELSE [entries |-> Append(kept, at), limited |-> FALSE,
             remaining |-> limit_per_hour - current_count - 1]

IsRateLimited(identifier, endpoint, limit_per_hour) ==
    LET key == RateKey(identifier, endpoint)
        r == RateLimited(rate_limits[key], clock, limit_per_hour)
    IN /\ rate_limits' = [rate_limits EXCEPT ![key] = r.entries]
       /\ log' = Append(log, [key |-> key, at |-> clock, limit |-> limit_per_hour,
                              limited |-> r.limited, remaining |-> r.remaining])
       /\ UNCHANGED clock
       /\ UNCHANGED <<docvars, response, simvars, workervars, chatvars, chunkvars>>

\* time passes between two calls
ClockTick ==
    /\ clock' = clock + 1
    /\ UNCHANGED <<rate_limits, log>>
    /\ UNCHANGED <<docvars, response, simvars, workervars, chatvars, chunkvars>>

RateNext ==
    \/ \E identifier \in Identifiers, endpoint \in Endpoints :
          /\ Len(log) < MaxRateCalls
          /\ IsRateLimited(identifier, endpoint, LimitPerHour(identifier))
    \/ clock < MaxTime /\ ClockTick

RateSpec == Init /\ [][RateNext]_vars

\* the admitted calls of key k in the history h made after time a and no
\* later than time b
Admitted(h, k, a, b) ==
    {i \in 1..Len(h) : /\ h[i].key = k
                       /\ ~h[i].limited
                       /\ h[i].at > a
                       /\ h[i].at <= b}

\* C30: for every key the admitted calls within any hour (a, a + Hour] are at
\* most limit_per_hour; a rejected call adds no timestamp to the list of its
\* key; an admitted call reports limit_per_hour less the admitted calls of
\* the past hour before it less one, which is not negative.
C30_AtMostLimitPerHour ==
    [][/\ \A k \in RateKeys, a \in (0 - Hour)..clock' :
             \A i \in Admitted(log', k, a, a + Hour) :
                 Cardinality(Admitted(log', k, a, a + Hour)) <= log'[i].limit
       /\ Len(log') > Len(log) =>
             LET call == log'[Len(log')]
                 before == Admitted(log, call.key, call.at - Hour, call.at)
             IN /\ call.limited =>
                      /\ Len(rate_limits'[call.key]) <= Len(rate_limits[call.key])
                      /\ \A t \in 1..Len(rate_limits'[call.key]) :
                            \E u \in 1..Len(rate_limits[call.key]) :
                                rate_limits[call.key][u] = rate_limits'[call.key][t]
                      /\ Cardinality(before) >= call.limit
                /\ ~call.limited =>
                      /\ call.remaining = call.limit - Cardinality(before) - 1
                      /\ call.remaining >= 0
                      /\ rate_limits'[call.key][Len(rate_limits'[call.key])] = call.at]_vars

C30_Witness ==
    /\ Len(log) = MaxRateCalls
    /\ log[1].key = log[4].key
    /\ log[1].limit = UserLimitPerHour
    /\ ~log[1].limited /\ log[1].remaining = 1
    /\ ~log[2].limited /\ log[2].remaining = 0 /\ log[2].key = log[1].key
    /\ log[3].limited /\ log[3].key = log[1].key
    /\ ~log[4].limited /\ log[4].at = log[1].at + Hour

====
